---------------------------- MODULE Spec2Model ----------------------------
(***************************************************************************)
(* A model of YT-Valorant-VODs: the pairing of local videos with remote    *)
(* matches (utils.py), the spreadsheet filter (excelSpreadsheet.py), the   *)
(* retry loops and the parallel upload (youtube_api.py) and the pipeline   *)
(* of main.py.                                                             *)
(*                                                                         *)
(* Times are fixed-point: one tick is 1/TicksPerSec of a second.  A video  *)
(* creation date is a whole number of seconds (int(os.path.getctime)), a   *)
(* match start is an ISO 8601 string, modelled as the record               *)
(* [sec, frac] that datetime.fromisoformat reads from it.                  *)
(***************************************************************************)
EXTENDS Integers, Sequences, FiniteSets, TLC

VARIABLES
    \* utils.compare_matchlist_with_video_dates / utils.get_pairings
    localVideoDates,    \* dict[str,int] as a sequence of [video_path, video_date], keys distinct
    time_threshold,     \* seconds
    matchlist,          \* the list handed to compare_matchlist_with_video_dates
    found_pairings,     \* its result
    cmp_pc,             \* "off" | "call" | "done"
    \* utils.get_pairings
    history,            \* the remote match history of the account, newest first
    pageSize,
    now,                \* time.time() at the call, in ticks
    page,
    oldest_match_date,  \* in ticks
    total_pairings,
    gp_pc,              \* "off" | "call" | "loop" | "done" | "exit" | "IndexError"
    \* excelSpreadsheet.ExcelSpreadsheet
    xlsx,               \* the file on disk: its rows (tuples of 9 cells)
    wb,                 \* self.wb: None or the rows of the loaded workbook
    mp4_files,          \* the list of video paths being filtered
    unprocessed_videos, \* the result of filterOutProcessedMatches
    xl_pc,              \* "off" | "call" | "done"
    \* youtube_api.retryAPIWithDelay: the wrapper around one api function
    runs,
    delay,              \* milliseconds
    rt_i,               \* the loop index i
    errorHistory,
    rt_result,          \* how the wrapper ended: a returned value or a raised exception
    rt_raised,          \* every HttpError the api function raised, in order
    rt_log,             \* the calls and sleeps of the wrapper, in order
    rt_pc,              \* "off" | "call" | "loop" | "in_call" | "sleep" | "done"
    \* youtube_api.resumable_upload
    error,
    retry,
    ru_result,
    ru_log,             \* the request executions and sleeps, in order
    ru_pc,              \* "off" | "call" | "loop" | "done" | "raised"
    \* youtube_api.uploadVideo
    uv_result,
    uv_pc,              \* "off" | "call" | "wait" | "done" | "raised"
    \* youtube_api.uploadGamesToYoutube and its pool of worker processes
    games,              \* the list of ExcelMatchEntry to upload
    playlistID,
    up_found,           \* what getPlaylistIDByName returned to uploadGamesToYoutube
    up_next,            \* the next game to hand to pool.apply_async
    up_got,             \* the next result to result.get()
    w_pc,               \* per task: "new" | "queued" | "upload" | "append" | "playlist" | "done" | "raised"
    w_videoID,          \* per task: videoID of uploadGameToYoutube
    sharedGames,        \* the list held by the manager process
    gamesWithLinks,     \* the list returned
    up_pc,              \* "off" | "call" | "dispatch" | "wait" | "returned" | "none" | "raised"
    youtube,            \* the videos on the channel: [id, path, run], in upload order
    run,                \* the number of the run of main
    \* main.main and the video directory
    dir,                \* the videos of VOD_DIR: [path, duration, ctime [sec, frac]], in os.walk order
    matches,            \* the list of ExcelMatchEntry built from the pairings
    m_log,              \* the stages this run has completed, in order
    written,            \* the rows appended to the sheet so far: [path, run]
    m_pc,               \* "off" | "search" | "short" | "old" | "open" | "excel" | "pairing"
                        \* | "ranks" | "upload" | "uploading" | "done" | "exit" | "crashed"
    \* youtube_api.getPlaylistIDByName
    pl_pages,           \* the pages of the channel's playlists: sequences of [id, title]
    pl_token,           \* nextPageToken: Nothing or <<number of the page it names>>
    pl_log,             \* the page queries made: [page, outcome], in order
    pl_result,          \* the value returned: an id | "-1" | None
    pl_pc,              \* "off" | "call" | "loop" | "done" | "raised"
    \* utils.getGameResult
    gr_data,            \* match_data: [team, red, blue]
    gr_result,          \* the pair returned: <<result, score>>
    gr_pc,              \* "off" | "call" | "done"
    \* ExcelSpreadsheet.open
    op_locked,          \* the spreadsheet file is open in another program
    op_loads,           \* the number of load_workbook calls of this open()
    op_result,          \* what open() returned: Nothing or <<workbook>>
    op_pc               \* "off" | "call" | "returned"

inVars == <<localVideoDates, time_threshold>>
cmpVars == <<found_pairings, cmp_pc>>
gpVars == <<history, pageSize, now, page, oldest_match_date, total_pairings, gp_pc>>

xlVars == <<xlsx, wb, mp4_files, unprocessed_videos, xl_pc>>

rtVars == <<runs, delay, rt_i, errorHistory, rt_result, rt_raised, rt_log, rt_pc>>
ruVars == <<error, retry, ru_result, ru_log, ru_pc>>
uvVars == <<uv_result, uv_pc>>

upVars == <<games, playlistID, up_found, up_next, up_got, w_pc, w_videoID, sharedGames,
            gamesWithLinks, up_pc, youtube, run>>

mainVars == <<dir, matches, m_log, written, m_pc>>

plVars == <<pl_pages, pl_token, pl_log, pl_result, pl_pc>>
grVars == <<gr_data, gr_result, gr_pc>>
opVars == <<op_locked, op_loads, op_result, op_pc>>
auxVars == <<plVars, grVars, opVars>>

vars == <<inVars, matchlist, cmpVars, gpVars, xlVars, rtVars, ruVars, uvVars, upVars,
          mainVars, auxVars>>

\* what the actions of one component leave alone
pairVars == <<inVars, matchlist, cmpVars, gpVars>>
retryVars == <<rtVars, ruVars, uvVars>>
cmpOthers == <<gpVars, xlVars, retryVars, upVars, mainVars, auxVars>>
gpOthers == <<cmpVars, xlVars, retryVars, upVars, mainVars, auxVars>>
xlOthers == <<pairVars, retryVars, upVars, mainVars, auxVars>>
rtOthers == <<pairVars, xlVars, upVars, mainVars, auxVars>>
upOthers == <<pairVars, xlVars, retryVars, mainVars, auxVars>>
plOthers == <<pairVars, xlVars, retryVars, upVars, mainVars, grVars, opVars>>
grOthers == <<pairVars, xlVars, retryVars, upVars, mainVars, plVars, opVars>>
opOthers == <<pairVars, xl_pc, mp4_files, unprocessed_videos, retryVars, upVars, mainVars,
              plVars, grVars>>

----------------------------------------------------------------------------
(* Bounds and program constants *)

TicksPerSec == 2
MaxSec == 1
NumPaths == 2
MaxMatches == 2
MaxHistory == 3
MaxPageSize == 2
MaxFiles == 2
MaxRows == 2
MaxRuns == 3
RandomDen == 2
Retries == 5
QueryRuns == 3
QueryDelay == 300
MaxGames == 2
NumCPU == 2
MaxPages == 2
MaxItems == 2
MaxScore == 13
MaxLoads == 3
MainRuns == 2
MinVideoLength == 1200
WeekSeconds == 604800
DefaultPageSize == 10
DefaultTimeThreshold == 300

----------------------------------------------------------------------------
(* Helpers *)

Abs(x) == IF x < 0 THEN -x ELSE x

Range(s) == {s[i] : i \in 1..Len(s)}

SeqsUpTo(S, n) == UNION {[1..k -> S] : k \in 0..n}

\* Python's None where a string may stand, and where a list or dict may stand
None == "None"
Nothing == <<>>

\* timeUtils.utc_to_unix: the parsed ISO time as a timestamp (in ticks)
utc_to_unix(time) == time.sec * TicksPerSec + time.frac

\* a whole number of seconds as a timestamp in ticks
Seconds(s) == s * TicksPerSec

----------------------------------------------------------------------------
(* Input domains *)

Paths == 1..NumPaths
PathNames == <<"a.mp4", "b.mp4", "c.mp4", "d.mp4">>
PathName(p) == PathNames[p]

Thresholds == {1, DefaultTimeThreshold}

\* whole seconds near 0 and near the threshold th
SecsNear(th) == {s + k * th : s \in 0..MaxSec, k \in {0, 1}}

\* ISO start times: on a whole second or one tick before the next one
IsoTimes(th) == [sec : SecsNear(th), frac : {0, TicksPerSec - 1}]

\* a match of the stats API: its id and its ISO start time
Match(id, t) == [id |-> id, started_at |-> t]

\* match lists whose k-th match has id k
MatchLists(th, n) ==
    {[k \in 1..Len(ts) |-> Match(k, ts[k])] : ts \in SeqsUpTo(IsoTimes(th), n)}

\* the dicts path -> creation date over a subset of Paths, in listing order
RECURSIVE DictsFrom(_, _)
DictsFrom(p, th) ==
    IF p > NumPaths THEN {<<>>}
    ELSE LET rest == DictsFrom(p + 1, th)
         IN  rest \cup
             {<<[video_path |-> PathName(p), video_date |-> d]>> \o r :
                  d \in 0..MaxSec, r \in rest}

VideoDicts(th) == DictsFrom(1, th)

----------------------------------------------------------------------------
(* utils.compare_matchlist_with_video_dates *)

IsCloseLe(video_date, match_date, threshold) ==
    Abs(Seconds(video_date) - match_date) <= Seconds(threshold)

\* utils.py:52  abs(video_date - match_date) < time_threshold
IsClose(video_date, match_date, threshold) ==
    Abs(Seconds(video_date) - match_date) < Seconds(threshold)

\* utils.py:50-55  the inner loop over localVideoDates.items()
RECURSIVE VideoLoop(_, _, _, _)
VideoLoop(match, dates, threshold, k) ==
    IF k > Len(dates) THEN <<>>
    ELSE (IF IsClose(dates[k].video_date, utc_to_unix(match.started_at), threshold)
          THEN <<[video_path |-> dates[k].video_path, match_data |-> match]>>
          ELSE <<>>)
         \o VideoLoop(match, dates, threshold, k + 1)

\* utils.py:43-58  the outer loop over the matchlist
RECURSIVE compare_matchlist_with_video_dates(_, _, _)
compare_matchlist_with_video_dates(ml, dates, threshold) ==
    IF ml = <<>> THEN <<>>
    ELSE VideoLoop(Head(ml), dates, threshold, 1)
         \o compare_matchlist_with_video_dates(Tail(ml), dates, threshold)

CmpIdle ==
    /\ found_pairings = <<>>
    /\ cmp_pc = "off"

\* exceptions: googleapiclient.errors.HttpError (the n-th one raised, with its
\* resp.status), youtube_api.ExceptionHistory, and any other exception
NoExc == [type |-> "none", status |-> 0, n |-> 0, history |-> <<>>]
HttpError(status, n) == [type |-> "HttpError", status |-> status, n |-> n, history |-> <<>>]
ExceptionHistory(exceptions) ==
    [type |-> "ExceptionHistory", status |-> 0, n |-> 0, history |-> exceptions]
OtherError == [type |-> "Exception", status |-> 0, n |-> 0, history |-> <<>>]

\* how a call ends: it returns a value (a dict, or Nothing for None) or raises
NoResult == [kind |-> "none", value |-> Nothing, exc |-> NoExc]
Return(value) == [kind |-> "return", value |-> value, exc |-> NoExc]
Raise(exc) == [kind |-> "raise", value |-> Nothing, exc |-> exc]

RtIdle ==
    /\ runs = 0
    /\ delay = 0
    /\ rt_i = 0
    /\ errorHistory = <<>>
    /\ rt_result = NoResult
    /\ rt_raised = <<>>
    /\ rt_log = <<>>
    /\ rt_pc = "off"

RuIdle ==
    /\ error = None
    /\ retry = 0
    /\ ru_result = NoResult
    /\ ru_log = <<>>
    /\ ru_pc = "off"

UvIdle ==
    /\ uv_result = None
    /\ uv_pc = "off"

PlIdle ==
    /\ pl_pages = <<>>
    /\ pl_token = Nothing
    /\ pl_log = <<>>
    /\ pl_result = None
    /\ pl_pc = "off"

GrIdle ==
    /\ gr_data = <<>>
    /\ gr_result = <<>>
    /\ gr_pc = "off"

OpIdle ==
    /\ op_locked = FALSE
    /\ op_loads = 0
    /\ op_result = Nothing
    /\ op_pc = "off"

AuxIdle == PlIdle /\ GrIdle /\ OpIdle

MainIdle ==
    /\ dir = <<>>
    /\ matches = <<>>
    /\ m_log = <<>>
    /\ written = {}
    /\ m_pc = "off"

UpIdle ==
    /\ games = <<>>
    /\ playlistID = None
    /\ up_found = None
    /\ up_next = 1
    /\ up_got = 1
    /\ w_pc = <<>>
    /\ w_videoID = <<>>
    /\ sharedGames = <<>>
    /\ gamesWithLinks = <<>>
    /\ up_pc = "off"
    /\ youtube = <<>>
    /\ run = 1

XlIdle ==
    /\ xlsx = <<>>
    /\ wb = Nothing
    /\ mp4_files = <<>>
    /\ unprocessed_videos = <<>>
    /\ xl_pc = "off"

GpIdle ==
    /\ history = <<>>
    /\ pageSize = 1
    /\ now = 0
    /\ page = 1
    /\ oldest_match_date = 0
    /\ total_pairings = <<>>
    /\ gp_pc = "off"

InitCompare ==
    /\ GpIdle
    /\ XlIdle
    /\ RtIdle /\ RuIdle /\ UvIdle /\ UpIdle /\ MainIdle /\ AuxIdle
    /\ time_threshold \in Thresholds
    /\ localVideoDates \in VideoDicts(time_threshold)
    /\ matchlist \in MatchLists(time_threshold, MaxMatches)
    /\ found_pairings = <<>>
    /\ cmp_pc = "call"

CompareCall ==
    /\ cmp_pc = "call"
    /\ found_pairings' =
           compare_matchlist_with_video_dates(matchlist, localVideoDates, time_threshold)
    /\ cmp_pc' = "done"
    /\ UNCHANGED <<localVideoDates, time_threshold, matchlist, cmpOthers>>

NextCompare == CompareCall

SpecCompare == InitCompare /\ [][NextCompare]_vars

----------------------------------------------------------------------------
(* C1: after compare_matchlist_with_video_dates, for every local video and *)
(* every match of the list, the result holds the pairing of that video     *)
(* with that match iff |T - S| < time_threshold (strictly).                *)
C1_PairingIffWithinThreshold ==
    cmp_pc = "done" =>
        \A v \in 1..Len(localVideoDates) : \A m \in 1..Len(matchlist) :
            ([video_path |-> localVideoDates[v].video_path, match_data |-> matchlist[m]]
                 \in Range(found_pairings))
            <=> (Abs(localVideoDates[v].video_date * TicksPerSec
                     - (matchlist[m].started_at.sec * TicksPerSec
                        + matchlist[m].started_at.frac))
                 < time_threshold * TicksPerSec)

\* a video and a match exactly time_threshold apart (no pairing) and a pair
\* one tick closer (a pairing), with the default threshold
C1_Witness ==
    /\ cmp_pc = "done"
    /\ time_threshold = DefaultTimeThreshold
    /\ found_pairings /= <<>>
    /\ \E v \in 1..Len(localVideoDates) : \E m \in 1..Len(matchlist) :
           /\ Abs(Seconds(localVideoDates[v].video_date)
                  - utc_to_unix(matchlist[m].started_at)) = Seconds(time_threshold)
           /\ [video_path |-> localVideoDates[v].video_path, match_data |-> matchlist[m]]
                  \notin Range(found_pairings)

----------------------------------------------------------------------------
(* utils.get_pairings over the paginated match history *)

Min(a, b) == IF a < b THEN a ELSE b

\* the histories: newest first (no two matches of one account start at the
\* same instant), the k-th match has id k
IsNewestFirst(ts) ==
    \A i \in 1..(Len(ts) - 1) : utc_to_unix(ts[i]) > utc_to_unix(ts[i + 1])

Histories(th) ==
    {[k \in 1..Len(ts) |-> Match(k, ts[k])] :
         ts \in {t \in SeqsUpTo(IsoTimes(th), MaxHistory) : IsNewestFirst(t)}}

\* utils.py:77  min(localVideoDates.values()), in ticks
oldest_local_video_date ==
    Seconds(CHOOSE d \in {localVideoDates[i].video_date : i \in 1..Len(localVideoDates)} :
                \A j \in 1..Len(localVideoDates) : d <= localVideoDates[j].video_date)

\* valorant_api.get_matchlist(size, page): the page of the history and its
\* "results" counts (returned: entries of this page, after: entries after it)
get_matchlist(size, pg) ==
    LET before == Min((pg - 1) * size, Len(history))
        last == Min(pg * size, Len(history))
        data == SubSeq(history, before + 1, last)
    IN  [data |-> data,
         results |-> [returned |-> Len(data), after |-> Len(history) - last]]

\* utils.py:82  while oldest_local_video_date < oldest_match_date
LoopGuard == oldest_local_video_date < oldest_match_date

InitGetPairings ==
    /\ CmpIdle
    /\ XlIdle
    /\ RtIdle /\ RuIdle /\ UvIdle /\ UpIdle /\ MainIdle /\ AuxIdle
    /\ time_threshold \in Thresholds
    /\ localVideoDates \in VideoDicts(time_threshold) \ {<<>>}
    /\ history \in Histories(time_threshold)
    /\ pageSize \in 1..MaxPageSize
    /\ now = Seconds(time_threshold + MaxSec + 1)
    /\ matchlist = <<>>
    /\ page = 1
    /\ oldest_match_date = 0
    /\ total_pairings = <<>>
    /\ gp_pc = "call"

\* utils.py:72-79
GpStart ==
    /\ gp_pc = "call"
    /\ total_pairings' = <<>>
    /\ oldest_match_date' = now
    /\ page' = 1
    /\ gp_pc' = "loop"
    /\ UNCHANGED <<inVars, matchlist, history, pageSize, now, gpOthers>>

\* utils.py:82-106  one iteration of the page loop on a page the API returned
GpRequestPage ==
    /\ gp_pc = "loop"
    /\ LoopGuard
    /\ LET response == get_matchlist(pageSize, page)
           returnedEntries == response.results.returned
       IN  /\ page' = page + 1
           /\ matchlist' = response.data
           /\ IF returnedEntries = 0
              THEN \* data[returnedEntries - 1] on an empty list
                   /\ gp_pc' = "IndexError"
                   /\ UNCHANGED <<oldest_match_date, total_pairings>>
              ELSE /\ oldest_match_date' =
                          utc_to_unix(response.data[returnedEntries].started_at)
                   /\ total_pairings' = total_pairings \o
                          compare_matchlist_with_video_dates(
                              response.data, localVideoDates, time_threshold)
                   /\ gp_pc' = IF returnedEntries = response.results.after
                               THEN "done" ELSE "loop"
    /\ UNCHANGED <<inVars, history, pageSize, now, gpOthers>>

\* utils.py:84-89  get_matchlist returned None (HTTP error): exit()
GpRequestFails ==
    /\ gp_pc = "loop"
    /\ LoopGuard
    /\ page' = page + 1
    /\ gp_pc' = "exit"
    /\ UNCHANGED <<inVars, matchlist, history, pageSize, now, oldest_match_date,
                   total_pairings, gpOthers>>

\* utils.py:82,108  the loop condition fails: return total_pairings
GpReturn ==
    /\ gp_pc = "loop"
    /\ ~LoopGuard
    /\ gp_pc' = "done"
    /\ UNCHANGED <<inVars, matchlist, history, pageSize, now, page, oldest_match_date,
                   total_pairings, gpOthers>>

NextGetPairings == GpStart \/ GpRequestPage \/ GpRequestFails \/ GpReturn

SpecGetPairings == InitGetPairings /\ [][NextGetPairings]_vars

(* C2: when get_pairings returns, for every local video and every match of *)
(* the whole history, the result holds their pairing iff                   *)
(* |T - S| < time_threshold.                                               *)
C2_AllPairingsOfHistory ==
    gp_pc = "done" =>
        \A v \in 1..Len(localVideoDates) : \A m \in 1..Len(history) :
            ([video_path |-> localVideoDates[v].video_path, match_data |-> history[m]]
                 \in Range(total_pairings))
            <=> (Abs(Seconds(localVideoDates[v].video_date)
                     - utc_to_unix(history[m].started_at))
                 < Seconds(time_threshold))

(* C16: in the list get_pairings returns each local video path occurs in   *)
(* at most one pairing and each match id occurs in at most one pairing.    *)
C16_PairingIsOneToOne ==
    gp_pc = "done" =>
        \A i, j \in 1..Len(total_pairings) :
            i /= j =>
                /\ total_pairings[i].video_path /= total_pairings[j].video_path
                /\ total_pairings[i].match_data.id /= total_pairings[j].match_data.id

----------------------------------------------------------------------------
(* schemas/excelMatchEntry.py and excelSpreadsheet.ExcelSpreadsheet *)

\* ExcelMatchEntryOrder: the column of each field, counted from 0
ExcelMatchEntryOrder ==
    [matchId |-> 0, date |-> 1, matchResult |-> 2, score |-> 3, agent |-> 4,
     map |-> 5, rank |-> 6, YTLink |-> 7, localPath |-> 8]

\* ExcelMatchEntry.getPrintableTitlesInOrder(): the header row
getPrintableTitlesInOrder ==
    <<"Riot Match ID", "Date", "Match Result", "Score", "Agent", "Map", "Rank",
      "YouTube Link", "Local Path">>

\* ExcelMatchEntry(...)
ExcelMatchEntry(matchId, date, matchResult, score, agent, map, rank, YTLink, localPath) ==
    [matchId |-> matchId, date |-> date, matchResult |-> matchResult, score |-> score,
     agent |-> agent, map |-> map, rank |-> rank, YTLink |-> YTLink,
     localPath |-> localPath]

\* ExcelMatchEntry.asTuple(): the fields in the order of ExcelMatchEntryOrder
asTuple(e) ==
    <<e.matchId, e.date, e.matchResult, e.score, e.agent, e.map, e.rank, e.YTLink,
      e.localPath>>

\* sheet["ABC..."[n]]: the cells of the column with 0-based index n, top down
Column(sheet, n) == [r \in 1..Len(sheet) |-> sheet[r][n + 1]]

\* a Python slice s[k:]
SliceFrom(s, k) == SubSeq(s, k + 1, Len(s))

LoggedPathsFromSecondDataRow(sheet) ==
    SliceFrom(Column(sheet, ExcelMatchEntryOrder.localPath), 2)

\* excelSpreadsheet.py:144  the Local Path column without its first (header) cell
LoggedPaths(sheet) ==
    SliceFrom(Column(sheet, ExcelMatchEntryOrder.localPath), 1)

\* excelSpreadsheet.py:147  [video for video in mp4_files if video not in localPaths]
RECURSIVE NotIn(_, _)
NotIn(files, localPaths) ==
    IF files = <<>> THEN <<>>
    ELSE (IF \E i \in 1..Len(localPaths) : localPaths[i] = Head(files)
          THEN <<>> ELSE <<Head(files)>>)
         \o NotIn(Tail(files), localPaths)

\* a YouTube video id and the link f"https://www.youtube.com/watch?v={videoID}"
VideoIds == <<"id1", "id2", "id3", "id4", "id5", "id6", "id7", "id8">>
VideoLinks ==
    <<"https://www.youtube.com/watch?v=id1", "https://www.youtube.com/watch?v=id2",
      "https://www.youtube.com/watch?v=id3", "https://www.youtube.com/watch?v=id4",
      "https://www.youtube.com/watch?v=id5", "https://www.youtube.com/watch?v=id6",
      "https://www.youtube.com/watch?v=id7", "https://www.youtube.com/watch?v=id8">>
VideoLink(videoID) ==
    VideoLinks[CHOOSE i \in 1..Len(VideoIds) : VideoIds[i] = videoID]

\* a data row as writeMatchesToExcel appends it for a logged game
LoggedRow(k, path) ==
    asTuple(ExcelMatchEntry(k, "Jun 13, 2023", "Win", "13-4", "Jett", "Bind", "Gold 1",
                            VideoLink(VideoIds[k]), path))

\* the workbooks a spreadsheet file may hold: the header row and data rows
Workbooks(n) ==
    {<<getPrintableTitlesInOrder>> \o [k \in 1..Len(ps) |-> LoggedRow(k, ps[k])] :
         ps \in SeqsUpTo({PathName(p) : p \in Paths}, n)}

\* the path lists filterOutProcessedMatches may be given
FilterInputs ==
    SeqsUpTo({PathName(p) : p \in Paths} \cup {"Local Path"}, MaxFiles)

InitFilter ==
    /\ CmpIdle
    /\ GpIdle
    /\ RtIdle /\ RuIdle /\ UvIdle /\ UpIdle /\ MainIdle /\ AuxIdle
    /\ localVideoDates = <<>>
    /\ time_threshold = DefaultTimeThreshold
    /\ matchlist = <<>>
    /\ xlsx \in Workbooks(MaxRows)
    /\ wb = xlsx
    /\ mp4_files \in FilterInputs
    /\ unprocessed_videos = <<>>
    /\ xl_pc = "call"

\* excelSpreadsheet.py:128-150  filterOutProcessedMatches on an open workbook
FilterCall ==
    /\ xl_pc = "call"
    /\ wb /= Nothing
    /\ unprocessed_videos' = NotIn(mp4_files, LoggedPaths(wb))
    /\ xl_pc' = "done"
    /\ UNCHANGED <<xlsx, wb, mp4_files, xlOthers>>

NextFilter == FilterCall

SpecFilter == InitFilter /\ [][NextFilter]_vars

(* C3: filterOutProcessedMatches on an open workbook returns exactly the   *)
(* input paths that are not in the Local Path column of the data rows      *)
(* (the rows after the header), in their input order.                      *)
C3_FilterKeepsExactlyUnlogged ==
    xl_pc = "done" =>
        LET logged == {wb[r][9] : r \in 2..Len(wb)}
            Unlogged(path) == path \notin logged
        IN  unprocessed_videos = SelectSeq(mp4_files, Unlogged)

\* a logged path is removed, an unlogged one is kept, and a file named like
\* the header cell is kept
C3_Witness ==
    /\ xl_pc = "done"
    /\ Len(wb) > 2
    /\ wb[2][9] \in Range(mp4_files)
    /\ "Local Path" \in Range(unprocessed_videos)
    /\ Len(unprocessed_videos) < Len(mp4_files)

----------------------------------------------------------------------------
(* youtube_api.retryAPIWithDelay *)

ServerStatuses == {500, 503}
ClientStatuses == {403, 499}

IsClientErrorLe(status) == status <= 500
IsClientErrorMissing(status) == FALSE

\* youtube_api.py:84  e.resp.status < 500
IsClientError(status) == status < 500

\* the events of rt_log
CallEvent == [ev |-> "call", num |-> 0, den |-> 1]
\* youtube_api.py:87  sleep(delay / 1000)
SleepEvent(ms) == [ev |-> "sleep", num |-> ms, den |-> 1000]

\* youtube_api.py:79  the wrapper is entered
RtEnter ==
    /\ rt_pc = "call"
    /\ errorHistory' = <<>>
    /\ rt_i' = 0
    /\ rt_pc' = "loop"
    /\ UNCHANGED <<runs, delay, rt_result, rt_raised, rt_log>>

\* youtube_api.py:80-82  the next run of the loop calls the api function
RtCallBegin ==
    /\ rt_pc = "loop"
    /\ rt_i < runs
    /\ rt_log' = Append(rt_log, CallEvent)
    /\ rt_pc' = "in_call"
    /\ UNCHANGED <<runs, delay, rt_i, errorHistory, rt_result, rt_raised>>

\* youtube_api.py:81-86  the api function returned or raised
RtCallEnd(o) ==
    /\ rt_pc = "in_call"
    /\ IF o.kind = "return"
       THEN /\ rt_result' = o
            /\ rt_pc' = "done"
            /\ UNCHANGED <<errorHistory, rt_raised>>
       ELSE IF o.exc.type = "HttpError"
       THEN /\ rt_raised' = Append(rt_raised, o.exc)
            /\ IF IsClientError(o.exc.status)
               THEN /\ rt_result' = o
                    /\ rt_pc' = "done"
                    /\ UNCHANGED errorHistory
               ELSE /\ errorHistory' = Append(errorHistory, o.exc)
                    /\ rt_pc' = "sleep"
                    /\ UNCHANGED rt_result
       ELSE /\ rt_result' = o
            /\ rt_pc' = "done"
            /\ UNCHANGED <<errorHistory, rt_raised>>
    /\ UNCHANGED <<runs, delay, rt_i, rt_log>>

\* youtube_api.py:87-89  the sleep after a server error, then the next i
RtSleep ==
    /\ rt_pc = "sleep"
    /\ rt_log' = Append(rt_log, SleepEvent(delay))
    /\ rt_i' = rt_i + 1
    /\ rt_pc' = "loop"
    /\ UNCHANGED <<runs, delay, errorHistory, rt_result, rt_raised>>

\* youtube_api.py:90  the loop is over: raise ExceptionHistory
RtExhausted ==
    /\ rt_pc = "loop"
    /\ rt_i >= runs
    /\ rt_result' = Raise(ExceptionHistory(errorHistory))
    /\ rt_pc' = "done"
    /\ UNCHANGED <<runs, delay, rt_i, errorHistory, rt_raised, rt_log>>

\* what a decorated api function may do on one call: return None or a
\* response, raise the next HttpError, or raise something else
ApiOutcomes ==
    {Return(Nothing), Return(<<[id |-> "id1"]>>), Raise(OtherError)}
    \cup {Raise(HttpError(st, Len(rt_raised) + 1)) : st \in ServerStatuses \cup ClientStatuses}

RtApiFunc == \E o \in ApiOutcomes : RtCallEnd(o) /\ UNCHANGED <<rtOthers, ruVars, uvVars>>

Delays == {QueryDelay, 1000}

InitRetry ==
    /\ CmpIdle /\ GpIdle /\ XlIdle /\ RuIdle /\ UvIdle /\ UpIdle /\ MainIdle /\ AuxIdle
    /\ localVideoDates = <<>>
    /\ time_threshold = DefaultTimeThreshold
    /\ matchlist = <<>>
    /\ runs \in 1..MaxRuns
    /\ delay \in Delays
    /\ rt_i = 0
    /\ errorHistory = <<>>
    /\ rt_result = NoResult
    /\ rt_raised = <<>>
    /\ rt_log = <<>>
    /\ rt_pc = "call"

RetryEnter == RtEnter /\ UNCHANGED <<rtOthers, ruVars, uvVars>>
RetryCallBegin == RtCallBegin /\ UNCHANGED <<rtOthers, ruVars, uvVars>>
RetrySleep == RtSleep /\ UNCHANGED <<rtOthers, ruVars, uvVars>>
RetryExhausted == RtExhausted /\ UNCHANGED <<rtOthers, ruVars, uvVars>>

NextRetry == RetryEnter \/ RetryCallBegin \/ RtApiFunc \/ RetrySleep \/ RetryExhausted

SpecRetry == InitRetry /\ [][NextRetry]_vars

\* the number of calls of the api function so far
RtCalls == Cardinality({k \in 1..Len(rt_log) : rt_log[k].ev = "call"})

(* C9: when every call of the decorated function fails with a server error *)
(* it is called exactly `runs` times and then ExceptionHistory is raised   *)
(* with exactly those errors in the order they occurred; a call that       *)
(* returns ends the wrapper with that value and no further call.           *)
C9_RunsCallsThenExceptionHistory ==
    /\ RtCalls <= runs
    /\ (rt_pc = "done" /\ rt_result.kind = "raise"
            /\ rt_result.exc.type = "ExceptionHistory")
        => /\ RtCalls = runs
           /\ Len(rt_raised) = runs
           /\ rt_result.exc.history = rt_raised
           /\ \A k \in 1..runs : rt_raised[k].status >= 500 /\ rt_raised[k].n = k
    /\ (rt_pc = "done" /\ RtCalls = runs /\ Len(rt_raised) = runs
            /\ \A k \in 1..runs : rt_raised[k].status >= 500)
        => rt_result = Raise(ExceptionHistory(rt_raised))
    /\ (rt_pc = "done" /\ rt_result.kind = "return")
        => /\ rt_log[Len(rt_log)].ev = "call"
           /\ RtCalls = Len(rt_raised) + 1
    /\ rt_pc = "done" => rt_result.kind /= "none"

C9_Witness ==
    /\ rt_pc = "done"
    /\ runs = QueryRuns
    /\ rt_result.kind = "raise"
    /\ rt_result.exc.type = "ExceptionHistory"
    /\ Len(rt_result.exc.history) = QueryRuns
    /\ rt_result.exc.history[1].status /= rt_result.exc.history[2].status

(* C10: an HttpError with status < 500 is not retried: the wrapper ends    *)
(* raising that same error right after that call, however many server      *)
(* errors came before, and ExceptionHistory is not raised.                 *)
C10_ClientErrorNotRetried ==
    \A k \in 1..Len(rt_raised) :
        rt_raised[k].status < 500 =>
            /\ k = Len(rt_raised)
            /\ rt_pc = "done"
            /\ rt_result = Raise(rt_raised[k])
            /\ RtCalls = k
            /\ rt_log[Len(rt_log)].ev = "call"

C10_Witness ==
    /\ rt_pc = "done"
    /\ Len(rt_raised) = 3
    /\ rt_raised[1].status >= 500
    /\ rt_raised[2].status >= 500
    /\ rt_raised[3].status = 499
    /\ rt_result = Raise(rt_raised[3])

\* the number of delays so far
RtSleeps == Cardinality({k \in 1..Len(rt_log) : rt_log[k].ev = "sleep"})

(* C11: when all `runs` calls fail with server errors, a delay of `delay`  *)
(* milliseconds lies between each two consecutive calls and only there     *)
(* (runs - 1 delays), and ExceptionHistory is raised directly after the    *)
(* last failed call with no further delay.                                 *)
C11_DelayOnlyBetweenRuns ==
    (rt_pc = "done" /\ rt_result.kind = "raise"
         /\ rt_result.exc.type = "ExceptionHistory")
        => /\ RtSleeps = runs - 1
           /\ rt_log[Len(rt_log)].ev = "call"
           /\ \A k \in 1..(Len(rt_log) - 1) :
                  rt_log[k].ev = "call" => rt_log[k + 1] = SleepEvent(delay)

----------------------------------------------------------------------------
(* youtube_api.resumable_upload, queryVideosInsert and uploadVideo *)

RECURSIVE Pow2(_)
Pow2(k) == IF k = 0 THEN 1 ELSE 2 * Pow2(k - 1)

MaxSleepLinear(k) == 2 * k

\* youtube_api.py:469  max_sleep = 2 ** retry
MaxSleep(k) == Pow2(k)

ExhaustedGe(k, retries) == k >= retries

\* youtube_api.py:466  if retry > retries
Exhausted(k, retries) == k > retries

\* the events of ru_log: an execution of the request with the HTTP status it
\* ended with, and a sleep of num/den seconds drawn below max_sleep
ExecuteEvent(status) == [ev |-> "execute", status |-> status, max_sleep |-> 0, num |-> 0, den |-> 1]
\* youtube_api.py:470-472  sleep_seconds = random() * max_sleep, random() = r/RandomDen
SleepSeconds(max_sleep, r) ==
    [ev |-> "sleep", status |-> 0, max_sleep |-> max_sleep, num |-> r * max_sleep,
     den |-> RandomDen]

\* youtube_api.py:460  the text of a retriable error
ErrorText(status) ==
    IF status = 500 THEN "A retriable HTTP error 500 occurred"
    ELSE "A retriable HTTP error 503 occurred"

\* what request.execute() may do: return the video resource, return a body
\* without an id, or raise an HttpError
ExecuteOutcomes ==
    {Return(<<[has_id |-> TRUE, id |-> "id1"]>>), Return(<<[has_id |-> FALSE, id |-> ""]>>)}
    \cup {Raise(HttpError(st, Len(rt_raised) + 1)) : st \in ServerStatuses \cup ClientStatuses}

\* youtube_api.py:446-449
RuStart ==
    /\ ru_pc = "call"
    /\ error' = None
    /\ retry' = 0
    /\ ru_pc' = "loop"
    /\ UNCHANGED <<ru_result, ru_log>>

\* youtube_api.py:449-472  one iteration of the while loop
RuIteration(o, r) ==
    /\ ru_pc = "loop"
    /\ IF o.kind = "return"
       THEN \* youtube_api.py:452-457
            /\ ru_log' = Append(ru_log, ExecuteEvent(200))
            /\ ru_result' = IF o.value[1].has_id THEN o ELSE Return(Nothing)
            /\ ru_pc' = "done"
            /\ UNCHANGED <<error, retry>>
       ELSE IF o.exc.status >= 500
       THEN \* youtube_api.py:458-460, 463-472
            /\ error' = ErrorText(o.exc.status)
            /\ retry' = retry + 1
            /\ IF Exhausted(retry + 1, Retries)
               THEN /\ ru_log' = Append(ru_log, ExecuteEvent(o.exc.status))
                    /\ ru_result' = Return(Nothing)
                    /\ ru_pc' = "done"
               ELSE /\ ru_log' = ru_log \o <<ExecuteEvent(o.exc.status),
                                               SleepSeconds(MaxSleep(retry + 1), r)>>
                    /\ UNCHANGED <<ru_result, ru_pc>>
       ELSE \* youtube_api.py:461-462  raise
            /\ ru_log' = Append(ru_log, ExecuteEvent(o.exc.status))
            /\ ru_result' = o
            /\ ru_pc' = "raised"
            /\ UNCHANGED <<error, retry>>

InitUpload ==
    /\ CmpIdle /\ GpIdle /\ XlIdle /\ RtIdle /\ RuIdle /\ UpIdle /\ MainIdle /\ AuxIdle
    /\ localVideoDates = <<>>
    /\ time_threshold = DefaultTimeThreshold
    /\ matchlist = <<>>
    /\ uv_result = None
    /\ uv_pc = "call"

\* youtube_api.py:612-638  uploadVideo calls the decorated queryVideosInsert
UvCall ==
    /\ uv_pc = "call"
    /\ uv_pc' = "wait"
    /\ runs' = QueryRuns
    /\ delay' = QueryDelay
    /\ rt_pc' = "call"
    /\ UNCHANGED <<rt_i, errorHistory, rt_result, rt_raised, rt_log, uv_result, ruVars,
                   rtOthers>>

UvEnter == RtEnter /\ UNCHANGED <<rtOthers, ruVars, uvVars>>
UvCallBegin == RtCallBegin /\ UNCHANGED <<rtOthers, ruVars, uvVars>>
UvSleep == RtSleep /\ UNCHANGED <<rtOthers, ruVars, uvVars>>
UvExhausted == RtExhausted /\ UNCHANGED <<rtOthers, ruVars, uvVars>>

\* youtube_api.py:421-425  queryVideosInsert: access denied, return None
QviDenied ==
    /\ ru_pc = "off"
    /\ RtCallEnd(Return(Nothing))
    /\ UNCHANGED <<rtOthers, ruVars, uvVars>>

\* youtube_api.py:427-428  queryVideosInsert: building the client raises an HttpError
QviBuildFails ==
    /\ ru_pc = "off"
    /\ \E st \in ServerStatuses \cup ClientStatuses :
           RtCallEnd(Raise(HttpError(st, Len(rt_raised) + 1)))
    /\ UNCHANGED <<rtOthers, ruVars, uvVars>>

\* youtube_api.py:430-439  queryVideosInsert calls resumable_upload(request)
QviUpload ==
    /\ rt_pc = "in_call"
    /\ ru_pc = "off"
    /\ ru_pc' = "call"
    /\ UNCHANGED <<error, retry, ru_result, ru_log, rtVars, rtOthers, uvVars>>

UvRuStart == RuStart /\ UNCHANGED <<rtVars, rtOthers, uvVars>>

UvRuIteration ==
    /\ \E o \in ExecuteOutcomes : \E r \in {0, RandomDen - 1} : RuIteration(o, r)
    /\ UNCHANGED <<rtVars, rtOthers, uvVars>>

\* youtube_api.py:439-441  queryVideosInsert ends as resumable_upload did
QviReturn ==
    /\ ru_pc \in {"done", "raised"}
    /\ RtCallEnd(ru_result)
    /\ UNCHANGED <<rtOthers, ruVars, uvVars>>

\* youtube_api.py:637-650  uploadVideo: the video id, or None
UvReturn ==
    /\ uv_pc = "wait"
    /\ rt_pc = "done"
    /\ uv_result' = IF rt_result.kind = "return" /\ rt_result.value /= Nothing
                    THEN rt_result.value[1].id
                    ELSE None
    /\ uv_pc' = "done"
    /\ UNCHANGED <<rtVars, ruVars, rtOthers>>

NextUpload ==
    \/ UvCall \/ UvEnter \/ UvCallBegin \/ UvSleep \/ UvExhausted
    \/ QviDenied \/ QviBuildFails \/ QviUpload
    \/ UvRuStart \/ UvRuIteration \/ QviReturn \/ UvReturn

SpecUpload == InitUpload /\ [][NextUpload]_vars

\* the executions of the request so far, and whether all were server errors
RuExecutes == {k \in 1..Len(ru_log) : ru_log[k].ev = "execute"}
RuSleeps == {k \in 1..Len(ru_log) : ru_log[k].ev = "sleep"}
AllServerErrors == \A k \in RuExecutes : ru_log[k].status >= 500

(* C5: an upload whose every attempt fails with a server error executes    *)
(* the request exactly Retries + 1 = 6 times, then resumable_upload        *)
(* returns None and uploadVideo returns None; the request is never         *)
(* executed more than 6 times.                                             *)
C5_ServerErrorsRetriedThenNone ==
    /\ Cardinality(RuExecutes) <= Retries + 1
    /\ (ru_pc = "done" /\ AllServerErrors)
        => /\ Cardinality(RuExecutes) = 6
           /\ ru_result = Return(Nothing)
    /\ (uv_pc = "done" /\ ru_pc = "done" /\ AllServerErrors) => uv_result = None
    /\ (ru_pc = "loop" /\ AllServerErrors) => Cardinality(RuExecutes) <= Retries

C5_Witness ==
    /\ uv_pc = "done"
    /\ ru_pc = "done"
    /\ AllServerErrors
    /\ Cardinality(RuExecutes) = 6
    /\ uv_result = None

(* C6: the k-th wait of resumable_upload is below 2^k seconds (2, 4, 8,    *)
(* 16, 32), every execution after the first comes right after a wait, and  *)
(* the failed attempt that exhausts the retries is followed by no wait.    *)
C6_ExponentialBackoff ==
    /\ \A j \in RuSleeps :
           LET k == Cardinality({i \in RuSleeps : i <= j})
           IN  /\ k <= 5
               /\ ru_log[j].max_sleep = <<2, 4, 8, 16, 32>>[k]
               /\ ru_log[j].num < ru_log[j].max_sleep * ru_log[j].den
               /\ ru_log[j].num >= 0
               /\ j > 1 /\ ru_log[j - 1].ev = "execute" /\ ru_log[j - 1].status >= 500
    /\ \A j \in RuExecutes : j > 1 => ru_log[j - 1].ev = "sleep"
    /\ (ru_pc = "loop" /\ ru_log /= <<>>) => ru_log[Len(ru_log)].ev = "sleep"
    /\ ru_pc \in {"done", "raised"} => ru_log[Len(ru_log)].ev = "execute"

C6_Witness ==
    /\ ru_pc = "done"
    /\ Cardinality(RuSleeps) = 5
    /\ ru_log[10].max_sleep = 32
    /\ ru_log[10].num > 16 * ru_log[10].den - ru_log[10].den
    /\ ru_log[11].status = 503

----------------------------------------------------------------------------
(* youtube_api.uploadGamesToYoutube and uploadGameToYoutube *)

Tasks == 1..Len(games)

\* a game as main builds it (main.py:72-74): no link yet
Game(matchId, path) ==
    ExcelMatchEntry(matchId, "Jun 13, 2023", "Win", "13-4", "Jett", "Bind", "Gold 1",
                    None, path)

GameLists ==
    {[k \in 1..Len(ps) |-> Game(k, ps[k])] :
         ps \in SeqsUpTo({PathName(p) : p \in Paths}, MaxGames)}

\* the tasks a pool process is working on
Running == {i \in Tasks : w_pc[i] \in {"upload", "append", "playlist"}}

\* the manager process lives inside the with block (youtube_api.py:734-744)
ManagerUp == up_pc \in {"dispatch", "wait"}

ResultReadyAlways(i) == TRUE

\* youtube_api.py:740  result.get() returns or raises once the task has ended
ResultReady(i) == w_pc[i] \in {"done", "raised"}

GameWithoutLink(i) == games[i]

GameWithLinkOfFirst(i) ==
    [games[1] EXCEPT !.YTLink = VideoLink(w_videoID[i])]

\* youtube_api.py:693-697  gameWithLink = copy(game); gameWithLink.YTLink = videoLink
GameWithLink(i) ==
    [games[i] EXCEPT !.YTLink = VideoLink(w_videoID[i])]

CouldNotGetNever(found) == FALSE

\* youtube_api.py:720  if playlistID is None
CouldNotGet(found) == found = None

\* youtube_api.py:718-727  the playlist id is looked up, or the playlist created
UpGetPlaylist ==
    /\ up_pc = "call"
    /\ \E found \in {None, "-1", "PL1"} :
           /\ up_found' = found
           /\ IF CouldNotGet(found)
              THEN /\ playlistID' = None
                   /\ up_pc' = "none"
              ELSE IF found = "-1"
              THEN /\ playlistID' \in {"PL1", None}     \* createPlaylist
                   /\ up_pc' = "dispatch"
              ELSE /\ playlistID' = found
                   /\ up_pc' = "dispatch"
    /\ up_next' = 1
    /\ up_got' = 1
    /\ w_pc' = [i \in Tasks |-> "new"]
    /\ w_videoID' = [i \in Tasks |-> None]
    /\ sharedGames' = <<>>
    /\ gamesWithLinks' = <<>>
    /\ UNCHANGED <<games, youtube, run, upOthers>>

\* youtube_api.py:736-739  pool.apply_async for the next game, then pool.close()
UpApplyAsync ==
    /\ up_pc = "dispatch"
    /\ IF up_next <= Len(games)
       THEN /\ w_pc' = [w_pc EXCEPT ![up_next] = "queued"]
            /\ up_next' = up_next + 1
            /\ UNCHANGED up_pc
       ELSE /\ up_pc' = "wait"
            /\ UNCHANGED <<w_pc, up_next>>
    /\ UNCHANGED <<games, playlistID, up_found, up_got, w_videoID, sharedGames, gamesWithLinks,
                   youtube, run, upOthers>>

\* a free pool process takes the task: uploadGameToYoutube starts (youtube_api.py:685-688)
WStart(i) ==
    /\ w_pc[i] = "queued"
    /\ Cardinality(Running) < NumCPU
    /\ w_pc' = [w_pc EXCEPT ![i] = "upload"]
    /\ UNCHANGED <<games, playlistID, up_found, up_next, up_got, w_videoID, sharedGames,
                   gamesWithLinks, up_pc, youtube, run, upOthers>>

\* youtube_api.py:689-692  uploadVideo returns the id of the new video, or
\* None, or an exception other than HttpError leaves the task
WUpload(i) ==
    /\ w_pc[i] = "upload"
    /\ \/ /\ Len(youtube) < Len(VideoIds)
          /\ LET videoID == VideoIds[Len(youtube) + 1]
             IN  /\ youtube' = Append(youtube, [id |-> videoID,
                                                path |-> games[i].localPath, run |-> run])
                 /\ w_videoID' = [w_videoID EXCEPT ![i] = videoID]
          /\ w_pc' = [w_pc EXCEPT ![i] = "append"]
       \/ /\ w_pc' = [w_pc EXCEPT ![i] = "done"]
          /\ UNCHANGED <<w_videoID, youtube>>
       \/ /\ w_pc' = [w_pc EXCEPT ![i] = "raised"]
          /\ UNCHANGED <<w_videoID, youtube>>
    /\ UNCHANGED <<games, playlistID, up_found, up_next, up_got, sharedGames, gamesWithLinks,
                   up_pc, run, upOthers>>

\* youtube_api.py:693-699  the copy with the link is appended to the shared
\* list: one call served by the manager process, which fails once it is gone
WAppend(i) ==
    /\ w_pc[i] = "append"
    /\ IF ManagerUp
       THEN /\ sharedGames' = Append(sharedGames, GameWithLink(i))
            /\ w_pc' = [w_pc EXCEPT ![i] = "playlist"]
       ELSE /\ w_pc' = [w_pc EXCEPT ![i] = "raised"]
            /\ UNCHANGED sharedGames
    /\ UNCHANGED <<games, playlistID, up_found, up_next, up_got, w_videoID, gamesWithLinks,
                   up_pc, youtube, run, upOthers>>

\* youtube_api.py:700-706, 653-682  addVideoToPlaylist returns the item or
\* None, or its server-error handler raises (pprint.ppprint does not exist)
WPlaylist(i) ==
    /\ w_pc[i] = "playlist"
    /\ \E outcome \in {"item", "None", "AttributeError"} :
           w_pc' = [w_pc EXCEPT ![i] = IF outcome = "AttributeError" THEN "raised"
                                                                     ELSE "done"]
    /\ UNCHANGED <<games, playlistID, up_found, up_next, up_got, w_videoID, sharedGames,
                   gamesWithLinks, up_pc, youtube, run, upOthers>>

\* youtube_api.py:740  the next result.get(): it returns, or re-raises what
\* the task raised, which leaves uploadGamesToYoutube
UpGet ==
    /\ up_pc = "wait"
    /\ up_got <= Len(games)
    /\ ResultReady(up_got)
    /\ IF w_pc[up_got] = "raised"
       THEN /\ up_pc' = "raised"
            /\ UNCHANGED up_got
       ELSE /\ up_got' = up_got + 1
            /\ UNCHANGED up_pc
    /\ UNCHANGED <<games, playlistID, up_found, up_next, w_pc, w_videoID, sharedGames,
                   gamesWithLinks, youtube, run, upOthers>>

\* youtube_api.py:742-745  the shared list is copied and returned
UpCollect ==
    /\ up_pc = "wait"
    /\ up_got > Len(games)
    /\ gamesWithLinks' = sharedGames
    /\ up_pc' = "returned"
    /\ UNCHANGED <<games, playlistID, up_found, up_next, up_got, w_pc, w_videoID, sharedGames,
                   youtube, run, upOthers>>

InitPool ==
    /\ CmpIdle /\ GpIdle /\ XlIdle /\ RtIdle /\ RuIdle /\ UvIdle /\ MainIdle /\ AuxIdle
    /\ localVideoDates = <<>>
    /\ time_threshold = DefaultTimeThreshold
    /\ matchlist = <<>>
    /\ games \in GameLists
    /\ playlistID = None
    /\ up_found = None
    /\ up_next = 1
    /\ up_got = 1
    /\ w_pc = [i \in Tasks |-> "new"]
    /\ w_videoID = [i \in Tasks |-> None]
    /\ sharedGames = <<>>
    /\ gamesWithLinks = <<>>
    /\ up_pc = "call"
    /\ youtube = <<>>
    /\ run = 1

WorkerStart == \E i \in Tasks : WStart(i)
WorkerUpload == \E i \in Tasks : WUpload(i)
WorkerAppend == \E i \in Tasks : WAppend(i)
WorkerPlaylist == \E i \in Tasks : WPlaylist(i)

NextPool ==
    \/ UpGetPlaylist \/ UpApplyAsync
    \/ WorkerStart \/ WorkerUpload \/ WorkerAppend \/ WorkerPlaylist
    \/ UpGet \/ UpCollect

SpecPool == InitPool /\ [][NextPool]_vars

\* the number of places of a sequence that hold e
Count(seq, e) == Cardinality({k \in 1..Len(seq) : seq[k] = e})

(* C7: when uploadGamesToYoutube returns its list, whatever the order of   *)
(* the workers' steps, every game whose upload succeeded has exactly one   *)
(* entry, equal to the game but for YTLink, the link of the video uploaded *)
(* from that game's file; a game whose upload failed has none; the list    *)
(* holds nothing else.                                                     *)
C7_OneEntryPerUploadedGame ==
    up_pc = "returned" =>
        /\ \A i \in Tasks :
               IF w_videoID[i] = None
               THEN \A k \in 1..Len(gamesWithLinks) :
                        [gamesWithLinks[k] EXCEPT !.YTLink = None] /= games[i]
               ELSE /\ Count(gamesWithLinks,
                             [games[i] EXCEPT
                                  !.YTLink = VideoLink(w_videoID[i])]) = 1
                    /\ \E u \in Range(youtube) :
                           /\ u.id = w_videoID[i]
                           /\ u.path = games[i].localPath
        /\ Len(gamesWithLinks) = Cardinality({i \in Tasks : w_videoID[i] /= None})
        /\ \A i, j \in Tasks : (i /= j /\ w_videoID[i] /= None) => w_videoID[i] /= w_videoID[j]

\* two workers ran at once, one upload failed, the entries were appended in
\* the opposite order of the games
C7_Witness ==
    /\ up_pc = "returned"
    /\ Len(games) = 2
    /\ Len(gamesWithLinks) = 1
    /\ gamesWithLinks[1].matchId = 2
    /\ w_videoID[1] = None

(* C12: when getPlaylistIDByName returned None, uploadGamesToYoutube       *)
(* returns None, starts no upload worker, and no video is uploaded.        *)
C12_NoPlaylistNoUpload ==
    (up_pc /= "call" /\ up_found = None) =>
        /\ up_pc = "none"
        /\ \A i \in Tasks : w_pc[i] = "new"
        /\ youtube = <<>>
        /\ sharedGames = <<>>

\* two games were passed and the lookup of the playlist failed
C12_Witness ==
    /\ up_pc = "none"
    /\ up_found = None
    /\ Len(games) = 2

----------------------------------------------------------------------------
(* youtube_api.getPlaylistIDByName *)

\* youtube_api.py:50  VODs_playlist_name, and another title
playlistName == "Valorant VODs"
Titles == {playlistName, "Clips"}

\* the id of the j-th playlist of page k
PlaylistId(k, j) == "PL" \o ToString((k - 1) * MaxItems + j)

\* the channels: at least one page, each of at most MaxItems playlists
PageTitles == SeqsUpTo(Titles, MaxItems)
Channels ==
    {[k \in 1..Len(ts) |-> [j \in 1..Len(ts[k]) |->
                               [id |-> PlaylistId(k, j), title |-> ts[k][j]]]] :
         ts \in SeqsUpTo(PageTitles, MaxPages) \ {<<>>}}

\* the page a pageToken names: the first page for None
PageOf(token) == IF token = Nothing THEN 1 ELSE token[1]

\* the response of playlists().list for a page: its items, and the
\* nextPageToken unless it is the last page
PlaylistsResponse(k) ==
    [items |-> pl_pages[k],
     nextPageToken |-> IF k < Len(pl_pages) THEN <<k + 1>> ELSE Nothing]

\* youtube_api.py:554-556  the indices of the items with the title, in order
Hits(items, name) == {j \in 1..Len(items) : items[j].title = name}

FirstHit(items, name) == CHOOSE j \in Hits(items, name) : \A h \in Hits(items, name) : j <= h

LastHit(items, name) == CHOOSE j \in Hits(items, name) : \A h \in Hits(items, name) : j >= h

FoundIdLast(items, name) == items[LastHit(items, name)].id

\* youtube_api.py:555-556  the id returned from a page that holds the title
FoundId(items, name) == items[FirstHit(items, name)].id

\* what queryPlaylistsList does when it does not return a response: None
\* (access denied), HttpError (status < 500), ExceptionHistory (server
\* errors on all runs)
QueryFailures == {"None", "HttpError", "ExceptionHistory"}

\* youtube_api.py:540-541  nextPageToken = None
PlStart ==
    /\ pl_pc = "call"
    /\ pl_token' = Nothing
    /\ pl_pc' = "loop"
    /\ UNCHANGED <<pl_pages, pl_log, pl_result, plOthers>>

\* youtube_api.py:542-563  one round of the loop with a response
PlPage ==
    /\ pl_pc = "loop"
    /\ LET k == PageOf(pl_token)
           response == PlaylistsResponse(k)
       IN  /\ pl_log' = Append(pl_log, [page |-> k, outcome |-> "response"])
           /\ IF Hits(response.items, playlistName) /= {}
              THEN /\ pl_result' = FoundId(response.items, playlistName)
                   /\ pl_pc' = "done"
                   /\ UNCHANGED pl_token
              ELSE IF response.nextPageToken = Nothing
              THEN /\ pl_result' = "-1"
                   /\ pl_pc' = "done"
                   /\ UNCHANGED pl_token
              ELSE /\ pl_token' = response.nextPageToken
                   /\ UNCHANGED <<pl_result, pl_pc>>
    /\ UNCHANGED <<pl_pages, plOthers>>

\* youtube_api.py:543-554  the query returns None or raises HttpError or
\* ExceptionHistory: return None
PlQueryFails ==
    /\ pl_pc = "loop"
    /\ \E f \in QueryFailures :
           pl_log' = Append(pl_log, [page |-> PageOf(pl_token), outcome |-> f])
    /\ pl_result' = None
    /\ pl_pc' = "done"
    /\ UNCHANGED <<pl_pages, pl_token, plOthers>>

\* youtube_api.py:543-545  the query raises something else, which leaves
\* getPlaylistIDByName
PlQueryRaises ==
    /\ pl_pc = "loop"
    /\ pl_log' = Append(pl_log, [page |-> PageOf(pl_token), outcome |-> "raise"])
    /\ pl_pc' = "raised"
    /\ UNCHANGED <<pl_pages, pl_token, pl_result, plOthers>>

InitPlaylist ==
    /\ CmpIdle /\ GpIdle /\ XlIdle /\ RtIdle /\ RuIdle /\ UvIdle /\ UpIdle /\ MainIdle
    /\ GrIdle /\ OpIdle
    /\ localVideoDates = <<>>
    /\ time_threshold = DefaultTimeThreshold
    /\ matchlist = <<>>
    /\ pl_pages \in Channels
    /\ pl_token = Nothing
    /\ pl_log = <<>>
    /\ pl_result = None
    /\ pl_pc = "call"

NextPlaylist == PlStart \/ PlPage \/ PlQueryFails \/ PlQueryRaises

SpecPlaylist == InitPlaylist /\ [][NextPlaylist]_vars

\* the pages that hold the title
PagesWithTitle == {k \in 1..Len(pl_pages) : Hits(pl_pages[k], playlistName) /= {}}

FirstPageWithTitle == CHOOSE k \in PagesWithTitle : \A h \in PagesWithTitle : k <= h

\* the id of the first playlist, in page order, with the title
FirstIdWithTitle ==
    LET items == pl_pages[FirstPageWithTitle]
    IN  items[CHOOSE j \in 1..Len(items) :
                  /\ items[j].title = playlistName
                  /\ \A h \in 1..(j - 1) : items[h].title /= playlistName].id

\* every query made so far gave a response
AllResponses == \A q \in 1..Len(pl_log) : pl_log[q].outcome = "response"

\* what the statement says of "-1", of None and of the pages requested
PlOtherClauses ==
    /\ \A q \in 1..Len(pl_log) : pl_log[q].page = q
    /\ PagesWithTitle /= {} => Len(pl_log) <= FirstPageWithTitle
    /\ pl_pc = "done" =>
           /\ pl_result = "-1" <=>
                  /\ Len(pl_log) = Len(pl_pages)
                  /\ AllResponses
                  /\ PagesWithTitle = {}
           /\ (pl_log[Len(pl_log)].outcome \in QueryFailures) => pl_result = None
           /\ pl_result \notin {"-1", None} =>
                  /\ PagesWithTitle /= {}
                  /\ pl_result = FirstIdWithTitle

(* C13, as stated: getPlaylistIDByName returns the id of the first         *)
(* playlist in page order with the title if one exists on any page;        *)
(* it returns "-1" iff every page was read and none holds the title; None   *)
(* if a query failed; no page is requested after the one with the title.   *)
C13_AsStated ==
    /\ PlOtherClauses
    /\ (pl_pc = "done" /\ PagesWithTitle /= {}) => pl_result = FirstIdWithTitle

(* C13, amended: the id of the first playlist in page order with the title *)
(* is returned if every page up to the first one that holds the title was  *)
(* read; "-1" iff every page was read and none holds the title; None if a  *)
(* query failed; no page is requested after the one with the title.        *)
C13_FirstIdOrMinusOneOrNone ==
    /\ PlOtherClauses
    /\ (pl_pc = "done" /\ PagesWithTitle /= {} /\ AllResponses)
           => /\ pl_result = FirstIdWithTitle
              /\ Len(pl_log) = FirstPageWithTitle

\* both playlists of the second page have the title: two pages were read
\* and the id of the first of the two was returned
C13_Witness ==
    /\ pl_pc = "done"
    /\ Len(pl_pages) = 2
    /\ PagesWithTitle = {2}
    /\ Cardinality(Hits(pl_pages[2], playlistName)) = 2
    /\ Len(pl_log) = 2
    /\ pl_result = PlaylistId(2, 1)

----------------------------------------------------------------------------
(* utils.getGameResult *)

\* the decimal digits of str(int)
Digits == <<"0", "1", "2", "3", "4", "5", "6", "7", "8", "9">>

\* utils.py:146  the text an f-string gives for a non-negative int
RECURSIVE Decimal(_)
Decimal(n) ==
    IF n < 10 THEN Digits[n + 1] ELSE Decimal(n \div 10) \o Digits[(n % 10) + 1]

\* the match data read by getGameResult: stats.team, teams.red, teams.blue
GameData == [team : {"Red", "Blue"}, red : 0..MaxScore, blue : 0..MaxScore]

\* utils.py:124-134
player_score(match_data) ==
    IF match_data.team = "Red" THEN match_data.red ELSE match_data.blue

enemy_score(match_data) ==
    IF match_data.team = "Red" THEN match_data.blue ELSE match_data.red

WonOrDrew(player, enemy) == player >= enemy

\* utils.py:137  if player_score > enemy_score
Won(player, enemy) == player > enemy

\* utils.py:111-147
getGameResult(match_data) ==
    LET player == player_score(match_data)
        enemy == enemy_score(match_data)
        result == IF Won(player, enemy) THEN "Win"
                  ELSE IF player < enemy THEN "Loss"
                  ELSE "Draw"
        score == Decimal(player) \o "-" \o Decimal(enemy)
    IN  <<result, score>>

InitGameResult ==
    /\ CmpIdle /\ GpIdle /\ XlIdle /\ RtIdle /\ RuIdle /\ UvIdle /\ UpIdle /\ MainIdle
    /\ PlIdle /\ OpIdle
    /\ localVideoDates = <<>>
    /\ time_threshold = DefaultTimeThreshold
    /\ matchlist = <<>>
    /\ gr_data \in GameData
    /\ gr_result = <<>>
    /\ gr_pc = "call"

GameResultCall ==
    /\ gr_pc = "call"
    /\ gr_result' = getGameResult(gr_data)
    /\ gr_pc' = "done"
    /\ UNCHANGED <<gr_data, grOthers>>

NextGameResult == GameResultCall

SpecGameResult == InitGameResult /\ [][NextGameResult]_vars

(* C14: getGameResult returns (result, score): score is the player's team  *)
(* score, "-", the enemy's; result is "Win" iff the player's team score is *)
(* greater, "Loss" iff smaller, "Draw" iff equal; the player's team score  *)
(* is the red score when stats.team is "Red" and the blue score otherwise. *)
C14_ResultAndScore ==
    gr_pc = "done" =>
        LET mine == IF gr_data.team = "Red" THEN gr_data.red ELSE gr_data.blue
            theirs == IF gr_data.team = "Red" THEN gr_data.blue ELSE gr_data.red
        IN  /\ Len(gr_result) = 2
            /\ gr_result[2] = ToString(mine) \o "-" \o ToString(theirs)
            /\ gr_result[1] = "Win" <=> mine > theirs
            /\ gr_result[1] = "Loss" <=> mine < theirs
            /\ gr_result[1] = "Draw" <=> mine = theirs

\* a draw of the blue team's player
C14_Witness ==
    /\ gr_pc = "done"
    /\ gr_data = [team |-> "Blue", red |-> 12, blue |-> 12]
    /\ gr_result = <<"Draw", "12-12">>

----------------------------------------------------------------------------
(* ExcelSpreadsheet.open and create *)

load_workbookIgnoringLock ==
    IF xlsx = Nothing THEN "FileNotFoundError" ELSE "loaded"

\* excelSpreadsheet.py:43  openpyxl.load_workbook(self.filename)
load_workbook ==
    IF xlsx = Nothing THEN "FileNotFoundError"
    ELSE IF op_locked THEN "PermissionError"
    ELSE "loaded"

\* excelSpreadsheet.py:70-75  the new workbook: the first row only
NewWorkbook == <<getPrintableTitlesInOrder>>

\* excelSpreadsheet.py:44-47, 64-82  no such file: return self.create()
OpCreate ==
    /\ op_pc = "call"
    /\ load_workbook = "FileNotFoundError"
    /\ op_loads' = op_loads + 1
    /\ wb' = NewWorkbook
    /\ xlsx' = NewWorkbook
    /\ op_result' = <<NewWorkbook>>
    /\ op_pc' = "returned"
    /\ UNCHANGED <<op_locked, opOthers>>

\* excelSpreadsheet.py:49-57  the file is open elsewhere: wait, then retry
OpRetry ==
    /\ op_pc = "call"
    /\ load_workbook = "PermissionError"
    /\ op_loads < MaxLoads
    /\ op_loads' = op_loads + 1
    /\ UNCHANGED <<xlsx, wb, op_locked, op_result, op_pc, opOthers>>

\* excelSpreadsheet.py:43, 60  the workbook is loaded and returned
OpLoaded ==
    /\ op_pc = "call"
    /\ load_workbook = "loaded"
    /\ op_loads' = op_loads + 1
    /\ wb' = xlsx
    /\ op_result' = <<xlsx>>
    /\ op_pc' = "returned"
    /\ UNCHANGED <<xlsx, op_locked, opOthers>>

\* excelSpreadsheet.py:58-59  load_workbook raises something else (the
\* file is not a workbook): raise e
OpRaises ==
    /\ op_pc = "call"
    /\ load_workbook = "loaded"
    /\ op_loads' = op_loads + 1
    /\ op_pc' = "raised"
    /\ UNCHANGED <<xlsx, wb, op_locked, op_result, opOthers>>

\* the user closes the spreadsheet in the other program
OpUnlock ==
    /\ op_locked
    /\ op_locked' = FALSE
    /\ UNCHANGED <<xlsx, wb, op_loads, op_result, op_pc, opOthers>>

InitOpen ==
    /\ CmpIdle /\ GpIdle /\ RtIdle /\ RuIdle /\ UvIdle /\ UpIdle /\ MainIdle
    /\ PlIdle /\ GrIdle
    /\ localVideoDates = <<>>
    /\ time_threshold = DefaultTimeThreshold
    /\ matchlist = <<>>
    /\ xlsx \in {Nothing} \cup Workbooks(MaxRows)
    /\ wb = Nothing
    /\ mp4_files = <<>>
    /\ unprocessed_videos = <<>>
    /\ xl_pc = "off"
    /\ op_locked \in IF xlsx = Nothing THEN {FALSE} ELSE BOOLEAN
    /\ op_loads = 0
    /\ op_result = Nothing
    /\ op_pc = "call"

NextOpen == OpCreate \/ OpRetry \/ OpLoaded \/ OpRaises \/ OpUnlock

SpecOpen == InitOpen /\ [][NextOpen]_vars

(* C15: ExcelSpreadsheet.open: if the file does not exist a workbook whose *)
(* only row is the header row is created and returned; while the file is   *)
(* locked open neither returns nor raises, and it returns the loaded       *)
(* workbook once a load succeeds; whenever open returns, self.wb is the    *)
(* returned workbook and not None.                                         *)
C15_OpenCreatesRetriesLoads ==
    /\ [](/\ op_locked => op_pc = "call"
          /\ xlsx = Nothing => op_pc = "call"
          /\ op_pc = "returned" =>
                 /\ wb /= Nothing
                 /\ op_result = <<wb>>
                 /\ wb = xlsx)
    /\ [][/\ xlsx = Nothing =>
                 /\ op_pc' = "returned"
                 /\ op_result' = <<<<getPrintableTitlesInOrder>>>>
                 /\ wb' = <<getPrintableTitlesInOrder>>
          /\ (op_pc' = "returned" /\ xlsx /= Nothing) =>
                 /\ ~op_locked
                 /\ op_result' = <<xlsx>>
                 /\ xlsx' = xlsx]_vars

\* the file was locked for two loads, then closed, then loaded with its rows
C15_Witness ==
    /\ op_pc = "returned"
    /\ op_loads = 3
    /\ Len(wb) = 3
    /\ op_result = <<xlsx>>

----------------------------------------------------------------------------
(* main.main, run after run over one video directory and one spreadsheet *)

\* videoUtils.py:160  int(os.path.getctime(video)), in seconds
creation_date(video) == video.ctime.sec

IsShortNever(video, minDuration) == FALSE

\* videoUtils.py:54  if duration < minDuration
IsShort(video, minDuration) == video.duration < minDuration

\* videoUtils.py:36-67  the videos that last at least minDuration
RECURSIVE filter_out_short_videos(_, _)
filter_out_short_videos(files, minDuration) ==
    IF files = <<>> THEN <<>>
    ELSE LET video == CHOOSE v \in Range(dir) : v.path = Head(files)
         IN  (IF IsShort(video, minDuration) THEN <<>> ELSE <<Head(files)>>)
             \o filter_out_short_videos(Tail(files), minDuration)

\* videoUtils.py:70-96  the videos created at or after minCreationDate (ticks)
RECURSIVE filter_out_old_videos(_, _)
filter_out_old_videos(files, minCreationDate) ==
    IF files = <<>> THEN <<>>
    ELSE LET video == CHOOSE v \in Range(dir) : v.path = Head(files)
         IN  (IF Seconds(creation_date(video)) < minCreationDate THEN <<>> ELSE <<Head(files)>>)
             \o filter_out_old_videos(Tail(files), minCreationDate)

\* videoUtils.py:148-173  get_video_creation_dates
get_video_creation_dates(videos) ==
    [k \in 1..Len(videos) |->
        [video_path |-> videos[k],
         video_date |-> creation_date(CHOOSE v \in Range(dir) : v.path = videos[k])]]

\* main.py:66-74  the entry of a pairing (result, score, agent and map are
\* read from the match data; the rank comes from getRankBeforeMatch)
EntryOfPair(pair, rank) ==
    ExcelMatchEntry(pair.match_data.id, "Jun 13, 2023", "Win", "13-4", "Jett", "Bind",
                    rank, None, pair.video_path)

\* excelSpreadsheet.py:112-113  the rows appended for a list of entries
RowsOf(entries) == [k \in 1..Len(entries) |-> asTuple(entries[k])]

\* the video directories: a.mp4 short or long enough, a week old or not;
\* b.mp4 long enough and new
MainDirs ==
    {<<[path |-> "a.mp4", duration |-> dur, ctime |-> c],
       [path |-> "b.mp4", duration |-> MinVideoLength, ctime |-> [sec |-> 1, frac |-> 0]]>> :
         dur \in {MinVideoLength - 1, MinVideoLength},
         c \in {[sec |-> 0, frac |-> TicksPerSec - 1], [sec |-> 1, frac |-> 0]}}

\* the start times of main's match histories, around the videos' second 1
JustInside == [sec |-> DefaultTimeThreshold, frac |-> TicksPerSec - 1]
JustOutside == [sec |-> DefaultTimeThreshold + 1, frac |-> 0]
LongBefore == [sec |-> 1 - DefaultTimeThreshold, frac |-> 0]
Later(k) == [sec |-> DefaultTimeThreshold + 100 + DefaultPageSize - k, frac |-> 0]

\* the match histories of main: a match that pairs, or none, then a match
\* from before every video, or the end of the history; and one history
\* whose first page holds later matches only
MainHistories ==
    {<<Match(1, JustInside), Match(2, LongBefore)>>,
     <<Match(1, JustOutside), Match(2, LongBefore)>>,
     <<Match(1, JustInside)>>,
     [k \in 1..DefaultPageSize |-> Match(k, Later(k))]
         \o <<Match(DefaultPageSize + 1, JustInside),
              Match(DefaultPageSize + 2, LongBefore)>>}

\* the spreadsheet files main may find: none, the header, or the header and
\* a row that logs b.mp4
MainSheets ==
    {Nothing, <<getPrintableTitlesInOrder>>,
     <<getPrintableTitlesInOrder, LoggedRow(1, "b.mp4")>>}

\* the per-run state of the pairing and of the upload, before they are used
GpFresh ==
    /\ page' = 1
    /\ oldest_match_date' = 0
    /\ total_pairings' = <<>>
    /\ gp_pc' = "off"
    /\ matchlist' = <<>>
    /\ localVideoDates' = <<>>

UpFresh ==
    /\ games' = <<>>
    /\ playlistID' = None
    /\ up_found' = None
    /\ up_next' = 1
    /\ up_got' = 1
    /\ w_pc' = <<>>
    /\ w_videoID' = <<>>
    /\ sharedGames' = <<>>
    /\ gamesWithLinks' = <<>>
    /\ up_pc' = "off"

InitMain ==
    /\ CmpIdle /\ RtIdle /\ RuIdle /\ UvIdle /\ UpIdle /\ AuxIdle
    /\ localVideoDates = <<>>
    /\ time_threshold = DefaultTimeThreshold
    /\ matchlist = <<>>
    /\ history \in MainHistories
    /\ pageSize = DefaultPageSize
    /\ now \in {Seconds(WeekSeconds + 1) - 1, Seconds(WeekSeconds + 1)}
    /\ page = 1
    /\ oldest_match_date = 0
    /\ total_pairings = <<>>
    /\ gp_pc = "off"
    /\ xlsx \in MainSheets
    /\ wb = Nothing
    /\ mp4_files = <<>>
    /\ unprocessed_videos = <<>>
    /\ xl_pc = "off"
    /\ dir \in MainDirs
    /\ matches = <<>>
    /\ m_log = <<>>
    /\ written = {}
    /\ m_pc = "search"

mainRest == <<auxVars, cmpVars, retryVars, xl_pc, unprocessed_videos, history, pageSize,
              time_threshold, dir>>

\* main.py:24-27  configure(), search_for_mp4_files(VOD_DIR)
MainSearch ==
    /\ m_pc = "search"
    /\ mp4_files' = [k \in 1..Len(dir) |-> dir[k].path]
    /\ m_pc' = "short"
    /\ UNCHANGED <<mainRest, upVars, now, page, oldest_match_date, total_pairings,
                   gp_pc, matchlist, localVideoDates, xlsx, wb, matches, m_log, written>>

\* main.py:29-31
MainFilterShort ==
    /\ m_pc = "short"
    /\ mp4_files' = filter_out_short_videos(mp4_files, MinVideoLength)
    /\ m_log' = Append(m_log, "short")
    /\ m_pc' = "old"
    /\ UNCHANGED <<mainRest, upVars, now, page, oldest_match_date, total_pairings,
                   gp_pc, matchlist, localVideoDates, xlsx, wb, matches, written>>

\* main.py:33-35
MainFilterOld ==
    /\ m_pc = "old"
    /\ mp4_files' = filter_out_old_videos(mp4_files, now - Seconds(WeekSeconds))
    /\ m_log' = Append(m_log, "old")
    /\ m_pc' = "open"
    /\ UNCHANGED <<mainRest, upVars, now, page, oldest_match_date, total_pairings,
                   gp_pc, matchlist, localVideoDates, xlsx, wb, matches, written>>

\* main.py:38-39, excelSpreadsheet.py:34-82  open(): the workbook is loaded,
\* or created with the header row and saved when there is no file
MainOpen ==
    /\ m_pc = "open"
    /\ IF xlsx = Nothing
       THEN /\ wb' = <<getPrintableTitlesInOrder>>
            /\ xlsx' = <<getPrintableTitlesInOrder>>
       ELSE /\ wb' = xlsx
            /\ UNCHANGED xlsx
    /\ m_pc' = "excel"
    /\ UNCHANGED <<mainRest, upVars, now, page, oldest_match_date, total_pairings,
                   gp_pc, matchlist, localVideoDates, mp4_files, matches, m_log, written>>

\* main.py:40-52  the spreadsheet filter; exit() when nothing is left,
\* else the creation dates are read and get_pairings is called
MainFilterExcel ==
    /\ m_pc = "excel"
    /\ LET left == NotIn(mp4_files, LoggedPaths(wb))
       IN  /\ mp4_files' = left
           /\ IF Len(left) = 0
              THEN /\ m_pc' = "exit"
                   /\ UNCHANGED <<localVideoDates, gp_pc>>
              ELSE /\ localVideoDates' = get_video_creation_dates(left)
                   /\ gp_pc' = "call"
                   /\ m_pc' = "pairing"
    /\ m_log' = Append(m_log, "excel")
    /\ UNCHANGED <<mainRest, upVars, now, page, oldest_match_date, total_pairings,
                   matchlist, xlsx, wb, matches, written>>

\* main.py:52  get_pairings is running (utils.py:61-108)
MainGpStart == m_pc = "pairing" /\ GpStart
MainGpRequestPage == m_pc = "pairing" /\ GpRequestPage
MainGpRequestFails == m_pc = "pairing" /\ GpRequestFails
MainGpReturn == m_pc = "pairing" /\ GpReturn

\* main.py:52-64  get_pairings returned, or left the program (exit(), IndexError)
MainPaired ==
    /\ m_pc = "pairing"
    /\ gp_pc \in {"done", "exit", "IndexError"}
    /\ IF gp_pc = "done"
       THEN /\ m_pc' = "ranks"
            /\ m_log' = Append(m_log, "pairing")
       ELSE /\ m_pc' = IF gp_pc = "exit" THEN "exit" ELSE "crashed"
            /\ UNCHANGED m_log
    /\ matches' = <<>>
    /\ UNCHANGED <<mainRest, upVars, now, page, oldest_match_date, total_pairings,
                   gp_pc, matchlist, localVideoDates, xlsx, wb, mp4_files, written>>

\* main.py:65-75, utils.py:150-176  the rank of the next pairing is
\* requested and its entry is built; exit() when the request fails
MainRank ==
    /\ m_pc = "ranks"
    /\ Len(matches) < Len(total_pairings)
    /\ \/ /\ matches' = Append(matches,
                              EntryOfPair(total_pairings[Len(matches) + 1], "Gold 1"))
          /\ UNCHANGED m_pc
       \/ /\ m_pc' = "exit"
          /\ UNCHANGED matches
    /\ m_log' = Append(m_log, "rank")
    /\ UNCHANGED <<mainRest, upVars, now, page, oldest_match_date, total_pairings,
                   gp_pc, matchlist, localVideoDates, xlsx, wb, mp4_files, written>>

\* main.py:78-81  uploadGamesToYoutube(matches) is called
MainUpload ==
    /\ m_pc = "ranks"
    /\ Len(matches) = Len(total_pairings)
    /\ games' = matches
    /\ up_pc' = "call"
    /\ m_log' = Append(m_log, "ranks")
    /\ m_pc' = "uploading"
    /\ UNCHANGED <<mainRest, playlistID, up_found, up_next, up_got, w_pc, w_videoID, sharedGames,
                   gamesWithLinks, youtube, run, now, page, oldest_match_date,
                   total_pairings, gp_pc, matchlist, localVideoDates, xlsx, wb,
                   mp4_files, matches, written>>

\* main.py:81  uploadGamesToYoutube is running (youtube_api.py:709-745)
MainUpGetPlaylist == m_pc = "uploading" /\ UpGetPlaylist
MainUpApplyAsync == m_pc = "uploading" /\ UpApplyAsync
MainUpGet == m_pc = "uploading" /\ UpGet
MainUpCollect == m_pc = "uploading" /\ UpCollect

\* youtube_api.py:734-744  the pool's processes work while the with block is
\* open; leaving it terminates them
MainWorkerStart == m_pc = "uploading" /\ ManagerUp /\ WorkerStart
MainWorkerUpload == m_pc = "uploading" /\ ManagerUp /\ WorkerUpload
MainWorkerAppend == m_pc = "uploading" /\ ManagerUp /\ WorkerAppend
MainWorkerPlaylist == m_pc = "uploading" /\ ManagerUp /\ WorkerPlaylist

\* excelSpreadsheet.py:115  sheet[sheet.max_row] is a tuple of cells and
\* ExcelMatchEntryOrder.matchResult a member of a plain Enum: indexing the
\* one by the other raises TypeError
matchResultCell == "TypeError"

\* main.py:81-84, excelSpreadsheet.py:97-125  writeMatchesToExcel on what
\* uploadGamesToYoutube returned. None is not iterable, and a worker's
\* exception leaves main before. For the first match the row is appended to
\* the sheet (line 113) and its result cell is looked up (line 115); the
\* workbook is saved after the loop (line 125).
MainWrite ==
    /\ m_pc = "uploading"
    /\ up_pc \in {"returned", "none", "raised"}
    /\ IF up_pc /= "returned"
       THEN /\ m_pc' = "crashed"
            /\ UNCHANGED <<wb, xlsx, written, m_log>>
       ELSE IF gamesWithLinks = <<>>
       THEN /\ xlsx' = wb
            /\ m_log' = m_log \o <<"upload", "write">>
            /\ m_pc' = "done"
            /\ UNCHANGED <<wb, written>>
       ELSE /\ wb' = Append(wb, asTuple(gamesWithLinks[1]))
            /\ written' = written \cup {[path |-> gamesWithLinks[1].localPath,
                                         run |-> run]}
            /\ m_log' = Append(m_log, "upload")
            /\ IF matchResultCell = "TypeError"
               THEN /\ m_pc' = "crashed"
                    /\ UNCHANGED xlsx
               ELSE /\ m_pc' = "done"
                    /\ xlsx' = wb \o RowsOf(gamesWithLinks)
    /\ UNCHANGED <<mainRest, upVars, now, page, oldest_match_date, total_pairings,
                   gp_pc, matchlist, localVideoDates, mp4_files, matches>>

\* the program is started again: same directory, the spreadsheet as saved
MainNextRun ==
    /\ m_pc \in {"done", "exit", "crashed"}
    /\ run < MainRuns
    /\ run' = run + 1
    /\ now' \in {now, now + Seconds(WeekSeconds)}
    /\ GpFresh
    /\ UpFresh
    /\ wb' = Nothing
    /\ mp4_files' = <<>>
    /\ matches' = <<>>
    /\ m_log' = <<>>
    /\ m_pc' = "search"
    /\ UNCHANGED <<mainRest, youtube, xlsx, written>>

NextMain ==
    \/ MainSearch \/ MainFilterShort \/ MainFilterOld \/ MainOpen \/ MainFilterExcel
    \/ MainGpStart \/ MainGpRequestPage \/ MainGpRequestFails \/ MainGpReturn
    \/ MainPaired \/ MainRank \/ MainUpload
    \/ MainUpGetPlaylist \/ MainUpApplyAsync
    \/ MainWorkerStart \/ MainWorkerUpload \/ MainWorkerAppend \/ MainWorkerPlaylist
    \/ MainUpGet \/ MainUpCollect
    \/ MainWrite \/ MainNextRun

SpecMain == InitMain /\ [][NextMain]_vars

\* a pool process has entered uploadGameToYoutube in this run
UploadStarted == \E i \in DOMAIN w_pc : w_pc[i] \notin {"new", "queued"}

\* writeMatchesToExcel has appended a row to the sheet in this run
RowAppended == \E w \in written : w.run = run

(* C4: across the runs of main over one video directory, each run starting *)
(* from the spreadsheet file the run before left, a video whose local path *)
(* a run wrote to the spreadsheet is not uploaded by a later run.          *)
C4_LoggedPathNeverUploadedAgain ==
    \A u \in Range(youtube) : \A w \in written :
        w.path = u.path => u.run <= w.run

(* C8: in every run of main, no match-list request is made before the     *)
(* duration, age and spreadsheet filters have run; no rank request is made *)
(* before get_pairings has returned; no upload starts before the rank of   *)
(* every pairing has been fetched; and no row is appended to the sheet     *)
(* before every upload worker has finished.                                *)
C8_StagesInOrder ==
    /\ page > 1 =>
           /\ Len(m_log) >= 3
           /\ SubSeq(m_log, 1, 3) = <<"short", "old", "excel">>
    /\ \A k \in 1..Len(m_log) :
           m_log[k] = "rank" =>
               /\ gp_pc = "done"
               /\ \E j \in 1..(k - 1) : m_log[j] = "pairing"
    /\ UploadStarted =>
           /\ Count(m_log, "rank") = Len(total_pairings)
           /\ Len(matches) = Len(total_pairings)
           /\ games = matches
    /\ RowAppended =>
           /\ Len(w_pc) = Len(matches)
           /\ \A i \in DOMAIN w_pc : w_pc[i] \in {"done", "raised"}

\* two pages were requested, two pairings ranked, both videos uploaded and
\* the first row appended
C8_Witness ==
    /\ RowAppended
    /\ page = 3
    /\ Len(matches) = 2
    /\ Count(m_log, "rank") = 2
    /\ Cardinality({u \in Range(youtube) : u.run = run}) = 2

\* the run of main has ended
RunEnded == m_pc \in {"done", "exit", "crashed"}

\* the cells of a row (columns are counted from 0 in ExcelMatchEntryOrder)
LinkOf(row) == row[ExcelMatchEntryOrder.YTLink + 1]
PathOf(row) == row[ExcelMatchEntryOrder.localPath + 1]

(* C17: in every run of main that reaches the upload stage, every video    *)
(* uploaded in that run has a row with its local path and link in the      *)
(* saved spreadsheet when the run ends, also when another game's upload or *)
(* playlist insertion fails or raises.                                     *)
C17_UploadedVideosAreSaved ==
    RunEnded =>
        \A u \in Range(youtube) :
            u.run = run =>
                \E k \in 2..Len(xlsx) :
                    /\ PathOf(xlsx[k]) = u.path
                    /\ LinkOf(xlsx[k]) = VideoLink(u.id)

(* C18: over any sequence of runs of main every data row of the            *)
(* spreadsheet has a non-empty YouTube Link and a non-empty Local Path,    *)
(* and no row is written for a game whose upload failed: every row a run   *)
(* appends carries the path and the link of a video uploaded in that run.  *)
C18_RowsHaveLinkAndPath ==
    /\ \A sheet \in {xlsx, wb} : \A k \in 2..Len(sheet) :
           /\ LinkOf(sheet[k]) \notin {None, ""}
           /\ PathOf(sheet[k]) \notin {None, ""}
    /\ wb /= Nothing =>
           \A k \in (Len(xlsx) + 1)..Len(wb) :
               \E u \in Range(youtube) :
                   /\ u.run = run
                   /\ u.path = PathOf(wb[k])
                   /\ VideoLink(u.id) = LinkOf(wb[k])

\* one upload of the run failed, the other succeeded and its row was
\* appended to the sheet
C18_Witness ==
    /\ RowAppended
    /\ Len(wb) = Len(xlsx) + 1
    /\ Len(games) = 2
    /\ \E i \in DOMAIN w_pc : w_pc[i] = "done" /\ w_videoID[i] = None

\* a is b with some of its places left out
RECURSIVE IsSubList(_, _)
IsSubList(a, b) ==
    IF a = <<>> THEN TRUE
    ELSE IF b = <<>> THEN FALSE
    ELSE IF Head(a) = Head(b) THEN IsSubList(Tail(a), Tail(b))
    ELSE IsSubList(a, Tail(b))

\* the video of the directory with the path
VideoAt(path) == CHOOSE v \in Range(dir) : v.path = path

\* the three conditions on a path, against the clock and the spreadsheet
\* file of this run
PassesFilters(path) ==
    /\ \E v \in Range(dir) : v.path = path
    /\ VideoAt(path).duration >= 20 * 60
    /\ utc_to_unix(VideoAt(path).ctime) >= now - Seconds(7 * 24 * 60 * 60)
    /\ \A k \in 2..Len(xlsx) : xlsx[k][9] /= path

(* C19: every video path main passes on to pairing, and every video        *)
(* uploaded in the run, lasts at least 20 minutes, was created not earlier *)
(* than 7 days before the run and is not in the Local Path column of the   *)
(* spreadsheet; each filter returns a sub-list of its input in its order.  *)
C19_PassedVideosSatisfyFilters ==
    /\ [](/\ m_pc \in {"pairing", "ranks", "uploading"} =>
                 /\ \A k \in 1..Len(localVideoDates) :
                        PassesFilters(localVideoDates[k].video_path)
                 /\ \A k \in 1..Len(total_pairings) :
                        PassesFilters(total_pairings[k].video_path)
                 /\ \A u \in Range(youtube) : u.run = run => PassesFilters(u.path)
          /\ IsSubList(mp4_files, [k \in 1..Len(dir) |-> dir[k].path]))
    /\ [][(m_pc \in {"short", "old", "excel"}) => IsSubList(mp4_files', mp4_files)]_vars

\* b.mp4 is logged in the spreadsheet and a.mp4 alone is passed to pairing
C19_Witness ==
    /\ m_pc = "pairing"
    /\ Len(xlsx) = 2
    /\ Len(localVideoDates) = 1
    /\ localVideoDates[1].video_path = "a.mp4"
    /\ mp4_files = <<"a.mp4">>

Init == InitCompare
Next == NextCompare
Spec == Init /\ [][Next]_vars

=============================================================================
